---- MODULE Spec2Model ----
(***************************************************************************)
(* A model of stuff/i18n_linter.py, the omegaUp i18n linter.               *)
(*                                                                         *)
(* run_all parses the three <lang>.lang source files, merges the badge     *)
(* localizations, checks that every key has every language (adding the     *)
(* 'pseudo' language on the way), renders three artifacts per language and *)
(* compares each with the bytes on disk.                                   *)
(*                                                                         *)
(* Text is modelled as text.  A Python str is a sequence of characters     *)
(* (one-character TLA+ strings, plus EAcute for U+00E9); a Python bytes    *)
(* object is a sequence of integers 0..255.  encode/decode, strip, the     *)
(* regular expressions, str.replace, json.dumps and sorted are computed.   *)
(***************************************************************************)
EXTENDS Integers, Sequences, FiniteSets, TLC

(***************************************************************************)
(* Characters and UTF-8                                                    *)
(***************************************************************************)

\* The characters of a TLA+ string literal, as a Python str.
Chars(s) == [i \in 1..Len(s) |-> SubSeq(s, i, i)]

\* U+00E9, the one non-ASCII character of the model (two bytes in UTF-8).
EAcute == "U+00E9"

\* The printable ASCII characters U+0020..U+005F and U+0061..U+007E.
PrintableLow ==
    Chars(" !\"#$%&'()*+,-./0123456789:;<=>?@ABCDEFGHIJKLMNOPQRSTUVWXYZ[\\]^_")

PrintableHigh == Chars("abcdefghijklmnopqrstuvwxyz{|}~")

CharSet ==
    {PrintableLow[i] : i \in 1..Len(PrintableLow)}
        \cup {PrintableHigh[i] : i \in 1..Len(PrintableHigh)}
        \cup {"\t", "\n", "\r", EAcute}

\* ord(c)
OrdOf ==
    [c \in CharSet |->
        CASE c = "\t" -> 9
          [] c = "\n" -> 10
          [] c = "\r" -> 13
          [] c = EAcute -> 233
          [] \E i \in 1..Len(PrintableLow) : PrintableLow[i] = c ->
                31 + (CHOOSE i \in 1..Len(PrintableLow) : PrintableLow[i] = c)
          [] OTHER ->
                96 + (CHOOSE i \in 1..Len(PrintableHigh) : PrintableHigh[i] = c)]

Ord(c) == OrdOf[c]

CodePoints == {OrdOf[c] : c \in CharSet}

\* chr(n), for the code points of the model
ChrOf == [n \in CodePoints |-> CHOOSE c \in CharSet : OrdOf[c] = n]

\* The concatenation of the sequences ss[lo..hi], by halves.
RECURSIVE FlattenRange(_, _, _)
FlattenRange(ss, lo, hi) ==
    IF lo > hi THEN <<>>
    ELSE IF lo = hi THEN ss[lo]
    ELSE FlattenRange(ss, lo, (lo + hi) \div 2)
            \o FlattenRange(ss, ((lo + hi) \div 2) + 1, hi)

\* ''.join(ss)
Flatten(ss) == FlattenRange(ss, 1, Len(ss))

\* The UTF-8 bytes of one character (code points below U+0800).
EncodeChar(c) ==
    IF Ord(c) < 128
    THEN <<Ord(c)>>
    ELSE <<192 + (Ord(c) \div 64), 128 + (Ord(c) % 64)>>

\* str.encode('utf-8')
Encode(s) == Flatten([i \in 1..Len(s) |-> EncodeChar(s[i])])

\* The result of a failed bytes.decode('utf-8') (UnicodeDecodeError).
DecodeError == <<"UnicodeDecodeError">>

\* 1, 2, ..., n
Indices(n) == [i \in 1..n |-> i]

\* A continuation byte, 0x80..0xBF.
IsContinuation(byte) == byte >= 128 /\ byte <= 191

\* The lead byte of a two-byte sequence, 0xC2..0xDF.
IsLead(byte) == byte >= 194 /\ byte <= 223

\* Whether byte i of b is well placed: an ASCII byte, a lead byte followed by a
\* continuation byte, or a continuation byte that follows a lead byte; and the
\* character is one of the model.
WellPlaced(b, i) ==
    \/ b[i] < 128 /\ b[i] \in CodePoints
    \/ /\ IsLead(b[i])
       /\ i + 1 <= Len(b) /\ IsContinuation(b[i + 1])
       /\ ((b[i] - 192) * 64 + (b[i + 1] - 128)) \in CodePoints
    \/ IsContinuation(b[i]) /\ i > 1 /\ IsLead(b[i - 1])

\* bytes.decode('utf-8'), strict, for the characters below U+0800: one
\* character for each byte that is no continuation byte.
Decode(b) ==
    IF \A i \in 1..Len(b) : WellPlaced(b, i)
    THEN LET starts == SelectSeq(Indices(Len(b)), LAMBDA i : ~IsContinuation(b[i]))
         IN  [k \in 1..Len(starts) |->
                 IF b[starts[k]] < 128 THEN ChrOf[b[starts[k]]]
                 ELSE ChrOf[(b[starts[k]] - 192) * 64 + (b[starts[k] + 1] - 128)]]
    ELSE DecodeError

(***************************************************************************)
(* str and bytes methods                                                   *)
(***************************************************************************)

\* str.isspace / the regular expression class \s
IsSpace(c) == c \in {" ", "\t", "\n", "\r"}

RECURSIVE LStrip(_)
LStrip(s) == IF s # <<>> /\ IsSpace(Head(s)) THEN LStrip(Tail(s)) ELSE s

RECURSIVE RStrip(_)
RStrip(s) ==
    IF s # <<>> /\ IsSpace(s[Len(s)]) THEN RStrip(SubSeq(s, 1, Len(s) - 1)) ELSE s

\* str.strip()
Strip(s) == RStrip(LStrip(s))

\* s.startswith(p), s.endswith(p)
StartsWith(s, p) == Len(s) >= Len(p) /\ SubSeq(s, 1, Len(p)) = p
EndsWith(s, p) == Len(s) >= Len(p) /\ SubSeq(s, Len(s) - Len(p) + 1, Len(s)) = p

\* s.replace(old, new): left to right, occurrences do not overlap.
RECURSIVE ReplaceFrom(_, _, _, _)
ReplaceFrom(s, i, old, new) ==
    IF i > Len(s) THEN <<>>
    ELSE IF i + Len(old) - 1 <= Len(s) /\ SubSeq(s, i, i + Len(old) - 1) = old
    THEN new \o ReplaceFrom(s, i + Len(old), old, new)
    ELSE <<s[i]>> \o ReplaceFrom(s, i + 1, old, new)

Replace(s, old, new) == ReplaceFrom(s, 1, old, new)

\* b.split(b'\n'): one more part than there are newline bytes.
SplitLines(b) ==
    LET breaks == SelectSeq(Indices(Len(b)), LAMBDA i : b[i] = 10)
        from(k) == IF k = 1 THEN 1 ELSE breaks[k - 1] + 1
        to(k) == IF k = Len(breaks) + 1 THEN Len(b) ELSE breaks[k] - 1
    IN  [k \in 1..(Len(breaks) + 1) |-> SubSeq(b, from(k), to(k))]

\* seq[:-1]
DropLast(seq) == SubSeq(seq, 1, Len(seq) - 1)

\* a < b for str: lexicographic by code point
RECURSIVE StrLess(_, _)
StrLess(a, b) ==
    IF b = <<>> THEN FALSE
    ELSE IF a = <<>> THEN TRUE
    ELSE IF Ord(Head(a)) # Ord(Head(b)) THEN Ord(Head(a)) < Ord(Head(b))
    ELSE StrLess(Tail(a), Tail(b))

\* sorted(keys)
RECURSIVE Sorted(_)
Sorted(S) ==
    IF S = {} THEN <<>>
    ELSE LET m == CHOOSE x \in S : \A y \in S \ {x} : StrLess(x, y)
         IN  <<m>> \o Sorted(S \ {m})

\* '\n'.join(lines)
RECURSIVE JoinLines(_)
JoinLines(ls) ==
    IF ls = <<>> THEN <<>>
    ELSE IF Len(ls) = 1 THEN ls[1]
    ELSE ls[1] \o <<"\n">> \o JoinLines(Tail(ls))

(***************************************************************************)
(* The regular expressions                                                 *)
(***************************************************************************)

\* The first index >= i of s that holds no whitespace (Len(s) + 1 if none).
RECURSIVE SkipSpace(_, _)
SkipSpace(s, i) == IF i <= Len(s) /\ IsSpace(s[i]) THEN SkipSpace(s, i + 1) ELSE i

\* Whether r'\s+=\s+' matches s starting at index i.
SeparatorAt(s, i) ==
    /\ i <= Len(s) /\ IsSpace(s[i])
    /\ LET j == SkipSpace(s, i)
       IN  j + 1 <= Len(s) /\ s[j] = "=" /\ IsSpace(s[j + 1])

\* re.compile(r'\s+=\s+').split(s, 1): <<s>> without a match, otherwise the
\* text before the leftmost match and the text after it.
KeyValueSplit(s) ==
    IF \E i \in 1..Len(s) : SeparatorAt(s, i)
    THEN LET i == CHOOSE i \in 1..Len(s) :
                    SeparatorAt(s, i) /\ \A k \in 1..(i - 1) : ~SeparatorAt(s, k)
             e == SkipSpace(s, SkipSpace(s, i) + 1)
         IN  <<SubSeq(s, 1, i - 1), SubSeq(s, e, Len(s))>>
    ELSE <<s>>

\* Whether (?:[^"]|\\")* can consume s[i..n].
RECURSIVE ValueBodyMatches(_, _, _)
ValueBodyMatches(s, i, n) ==
    IF i > n THEN TRUE
    ELSE \/ s[i] # "\"" /\ ValueBodyMatches(s, i + 1, n)
         \/ i + 1 <= n /\ s[i] = "\\" /\ s[i + 1] = "\"" /\ ValueBodyMatches(s, i + 2, n)

\* The result of a match that failed (None).
NoMatch == <<"None">>

\* re.compile(r'^"((?:[^"]|\\")*)"$').match(value): group(1), or NoMatch.  The
\* value is a part of one stripped line, so '$' is the end of the value.
QuotedValueMatch(value) ==
    IF /\ Len(value) >= 2
       /\ value[1] = "\"" /\ value[Len(value)] = "\""
       /\ ValueBodyMatches(value, 2, Len(value) - 1)
    THEN SubSeq(value, 2, Len(value) - 1)
    ELSE NoMatch

\* [a-zA-Z0-9_-]
IsIdChar(c) ==
    \/ Ord(c) >= 97 /\ Ord(c) <= 122
    \/ Ord(c) >= 65 /\ Ord(c) <= 90
    \/ Ord(c) >= 48 /\ Ord(c) <= 57
    \/ c \in {"_", "-"}

RECURSIVE SkipIdChars(_, _)
SkipIdChars(s, i) == IF i <= Len(s) /\ IsIdChar(s[i]) THEN SkipIdChars(s, i + 1) ELSE i

\* The index after the match of r'%\([a-zA-Z0-9_-]+\)' that starts at index i
\* of s, or 0 when there is none.
PlaceholderEnd(s, i) ==
    IF i + 1 <= Len(s) /\ s[i] = "%" /\ s[i + 1] = "("
    THEN LET j == SkipIdChars(s, i + 2)
         IN  IF j > i + 2 /\ j <= Len(s) /\ s[j] = ")" THEN j + 1 ELSE 0
    ELSE 0

\* re.split(r'(%\([a-zA-Z0-9_-]+\))', s): the text between the matches and,
\* the group capturing, the matches themselves, in order.
RECURSIVE SplitPlaceholdersFrom(_, _, _)
SplitPlaceholdersFrom(s, start, i) ==
    IF i > Len(s) THEN <<SubSeq(s, start, Len(s))>>
    ELSE IF PlaceholderEnd(s, i) # 0
    THEN <<SubSeq(s, start, i - 1), SubSeq(s, i, PlaceholderEnd(s, i) - 1)>>
            \o SplitPlaceholdersFrom(s, PlaceholderEnd(s, i), PlaceholderEnd(s, i))
    ELSE SplitPlaceholdersFrom(s, start, i + 1)

SplitPlaceholders(s) == SplitPlaceholdersFrom(s, 1, 1)

(***************************************************************************)
(* _unescape, _pseudoloc and json.dumps                                    *)
(***************************************************************************)

\* _unescape(s)
Unescape(s) == Replace(Replace(s, <<"\\", "\"">>, <<"\"">>), <<"\\", "n">>, <<"\n">>)

\* str.maketrans('elsot', '31507')
TranslateChar(c) ==
    CASE c = "e" -> "3"
      [] c = "l" -> "1"
      [] c = "s" -> "5"
      [] c = "o" -> "0"
      [] c = "t" -> "7"
      [] OTHER -> c

\* token.translate(table)
Translate(token) == [i \in 1..Len(token) |-> TranslateChar(token[i])]

\* The test of _pseudoloc's loop that leaves a token as it is.
SkipsToken(token) == StartsWith(token, <<"%", "(">>) /\ EndsWith(token, <<")">>)

\* I18nLinter._pseudoloc(original)
Pseudoloc(original) ==
    LET tokens == SplitPlaceholders(original)
        done == [i \in 1..Len(tokens) |->
                    IF SkipsToken(tokens[i]) THEN tokens[i] ELSE Translate(tokens[i])]
    IN  <<"(">> \o Flatten(done) \o <<")">>

HexDigits == Chars("0123456789abcdef")

\* '\\u%04x' % n
UnicodeEscape(n) ==
    <<"\\", "u", HexDigits[((n \div 4096) % 16) + 1], HexDigits[((n \div 256) % 16) + 1],
      HexDigits[((n \div 16) % 16) + 1], HexDigits[(n % 16) + 1]>>

\* json.dumps of one character of a string (ensure_ascii).
JsonChar(c) ==
    CASE c = "\"" -> <<"\\", "\"">>
      [] c = "\\" -> <<"\\", "\\">>
      [] c = "\n" -> <<"\\", "n">>
      [] c = "\r" -> <<"\\", "r">>
      [] c = "\t" -> <<"\\", "t">>
      [] OTHER -> IF Ord(c) >= 32 /\ Ord(c) <= 126 THEN <<c>> ELSE UnicodeEscape(Ord(c))

\* json.dumps(s) for a str s
JsonString(s) == <<"\"">> \o Flatten([i \in 1..Len(s) |-> JsonChar(s[i])]) \o <<"\"">>

(***************************************************************************)
(* Paths, languages and the three renderings                               *)
(***************************************************************************)

\* I18nLinter._LANGS
LANGS == <<"en", "es", "pt">>

\* set(self._LANGS), the languages run_all gives the check
RequiredLanguages == {LANGS[i] : i \in 1..Len(LANGS)}

\* self._LANGS + ['pseudo']
OutputLanguages == LANGS \o <<"pseudo">>

TEMPLATES_PATH == "frontend/templates"
JS_TEMPLATES_PATH == "frontend/www/js/omegaup"

\* '%s/%s.lang' % (self._TEMPLATES_PATH, lang)
SourcePath(lang) == TEMPLATES_PATH \o "/" \o lang \o ".lang"

\* '%s/lang.%s.ts' % (self._JS_TEMPLATES_PATH, language)
TypescriptPath(lang) == JS_TEMPLATES_PATH \o "/lang." \o lang \o ".ts"

\* '%s/lang.%s.json' % (self._JS_TEMPLATES_PATH, language)
JsonPath(lang) == JS_TEMPLATES_PATH \o "/lang." \o lang \o ".json"

\* A dict without entries.
EmptyDict == [k \in {} |-> <<>>]

\* d[k] = v
DictSet(d, k, v) == (k :> v) @@ d

\* strings[key][lang] where the inner dict may be a defaultdict(str)
Value(strings, key, lang) ==
    IF lang \in DOMAIN strings[key] THEN strings[key][lang] ELSE <<>>

\* value.replace('"', r'\"'), the escaping of _generate_sorted
EscapeQuotes(value) == Replace(value, <<"\"">>, <<"\\", "\"">>)

\* match.group(1).replace(r'\"', '"'), the unescaping of the parser
UnescapeQuotes(group) == Replace(group, <<"\\", "\"">>, <<"\"">>)

\* I18nLinter._generate_sorted(lang, strings)
GenerateSorted(lang, strings) ==
    LET keys == Sorted(DOMAIN strings)
    IN  Flatten([i \in 1..Len(keys) |->
            keys[i] \o Chars(" = \"")
                \o EscapeQuotes(Value(strings, keys[i], lang))
                \o Chars("\"\n")])

\* I18nLinter._generate_typescript(lang, strings)
GenerateTypescript(lang, strings) ==
    LET keys == Sorted(DOMAIN strings)
    IN  JoinLines(
            <<Chars("// generated by stuff/i18n.py. DO NOT EDIT."),
              Chars("const translations: { [key: string]: string; } = {")>>
            \o [i \in 1..Len(keys) |->
                    Chars("  ") \o keys[i] \o Chars(": ")
                        \o JsonString(Unescape(Value(strings, keys[i], lang)))
                        \o Chars(",")]
            \o <<Chars("};\n"), Chars("export {translations as default};")>>)

\* ',\n'.join(items)
RECURSIVE JoinItems(_)
JoinItems(items) ==
    IF items = <<>> THEN <<>>
    ELSE IF Len(items) = 1 THEN items[1]
    ELSE items[1] \o Chars(",\n") \o JoinItems(Tail(items))

\* I18nLinter._generate_json(lang, strings):
\* json.dumps(json_map, sort_keys=True, indent='\t')
GenerateJson(lang, strings) ==
    LET keys == Sorted(DOMAIN strings)
    IN  IF keys = <<>> THEN Chars("{}")
        ELSE Chars("{\n")
                \o JoinItems([i \in 1..Len(keys) |->
                        <<"\t">> \o JsonString(keys[i]) \o Chars(": ")
                            \o JsonString(Unescape(Value(strings, keys[i], lang)))])
                \o Chars("\n}")

(***************************************************************************)
(* State                                                                   *)
(***************************************************************************)

VARIABLES
    disk,               \* what contents_callback returns, for the paths that are
                        \* known: path -> bytes
    upToDate,           \* generated paths whose bytes on disk are the bytes of the
                        \* current rendering (made concrete in disk when fetched)
    badges,             \* frontend/badges once it was listed: the decoded
                        \* localizations.json of each badge alias
    pc,                 \* where run_all is
    lang_i,             \* _get_translated_strings: index into LANGS
    lines,              \* ... the lines of the current file
    lineno,             \* ... enumerate's index of the next line
    row,                \* ... the local 'row': <<>> while unbound, else <<str>>
    key_order,          \* insertion order of the keys of 'strings'
    strings,            \* key -> (language -> value)
    diagnostics,        \* the list 'diagnostics' of the running function
    check_i,            \* _check_missing_entries: index into key_order
    entry_i,            \* _generate_new_contents: the next of its 12 entries
    new_contents,       \* path -> bytes
    original_contents,  \* path -> bytes
    outcome,            \* what run_all returned or raised
    phases,             \* history: the phases that have started, in order
    table,              \* the table and language handed to _generate_sorted alone
    rerun               \* whether the caller wrote new_contents back and ran again

vars ==
    <<disk, upToDate, badges, pc, lang_i, lines, lineno, row, key_order, strings,
      diagnostics, check_i, entry_i, new_contents, original_contents, outcome,
      phases, table, rerun>>

Range(seq) == {seq[i] : i \in 1..Len(seq)}

\* linters.Diagnostic(message, filename=..., lineno=..., line=...).  A message is
\* its format with the values it interpolates; an absent lineno or line is <<>>.
Diagnostic(fmt, args, file, no, text) ==
    [message |-> [fmt |-> fmt, args |-> args], filename |-> file,
     lineno |-> no, line |-> text]

NoOutcome == [kind |-> "none", message |-> "", fixable |-> TRUE, diagnostics |-> <<>>]

\* linters.LinterException(message, fixable=..., diagnostics=...)
LinterException(message, fixable, diags) ==
    [kind |-> "LinterException", message |-> message, fixable |-> fixable,
     diagnostics |-> diags]

\* Any other exception, which run_all lets through.
Crash(name) == [kind |-> name, message |-> "", fixable |-> TRUE, diagnostics |-> <<>>]

\* linters.MultipleResults(new_contents, original_contents, ['i18n']): the two
\* maps are the variables new_contents and original_contents.
MultipleResults ==
    [kind |-> "MultipleResults", message |-> "i18n", fixable |-> TRUE,
     diagnostics |-> <<>>]

LogPhase(name) == IF name \in Range(phases) THEN phases ELSE Append(phases, name)

SourcePaths == {SourcePath(LANGS[i]) : i \in 1..Len(LANGS)}

\* The paths _generate_new_contents compares, in its order.
EntryPaths ==
    Flatten([i \in 1..Len(OutputLanguages) |->
        <<SourcePath(OutputLanguages[i]), TypescriptPath(OutputLanguages[i]),
          JsonPath(OutputLanguages[i])>>])

\* The artifacts that are no input of the parser.
GeneratedPaths == Range(EntryPaths) \ SourcePaths

\* The permutations of a finite set: the orders in which Python may iterate a
\* set, or os.scandir may list a directory.
Orderings(S) == {f \in [1..Cardinality(S) -> S] : Range(f) = S}

\* The rendering that entry i of _generate_new_contents compares.
Rendering(i, tbl) ==
    LET language == OutputLanguages[((i - 1) \div 3) + 1]
    IN  CASE (i - 1) % 3 = 0 -> GenerateSorted(language, tbl)
          [] (i - 1) % 3 = 1 -> GenerateTypescript(language, tbl)
          [] OTHER -> GenerateJson(language, tbl)

\* The locals of run_all and of the functions it calls, as run_all starts.
Locals ==
    /\ lang_i = 1
    /\ lines = <<>>
    /\ lineno = 0
    /\ row = <<>>
    /\ key_order = <<>>
    /\ strings = EmptyDict
    /\ diagnostics = <<>>
    /\ check_i = 1
    /\ entry_i = 1
    /\ new_contents = EmptyDict
    /\ original_contents = EmptyDict
    /\ outcome = NoOutcome
    /\ phases = <<>>

(***************************************************************************)
(* _get_translated_strings                                                 *)
(***************************************************************************)

\* lineno + 1, the line number a diagnostic carries
LineNumber(index) == index + 1

\* IsBadgeKey for a parser that keeps every key.
IsBadgeKeyNever(k) == FALSE

\* k.startswith('badge_')
IsBadgeKey(k) == StartsWith(k, Chars("badge_"))

\* The 'if diagnostics:' of the parser.
ParserRaises(diags) == diags # <<>>

\* The try block for one decoded row: the key it creates in 'strings', and
\* either the value it stores or the exception it raises.
TryRow(decoded) ==
    LET parts == KeyValueSplit(Strip(decoded))
    IN  IF Len(parts) = 1
        THEN [raised |-> TRUE, creates |-> FALSE, key |-> <<>>, value |-> <<>>,
              fmt |-> "not enough values to unpack (expected 2, got 1)",
              args |-> <<>>]
        ELSE IF QuotedValueMatch(parts[2]) = NoMatch
        THEN [raised |-> TRUE, creates |-> TRUE, key |-> parts[1], value |-> <<>>,
              fmt |-> "Invalid line %r", args |-> <<Strip(decoded)>>]
        ELSE [raised |-> FALSE, creates |-> TRUE, key |-> parts[1],
              value |-> UnescapeQuotes(QuotedValueMatch(parts[2])),
              fmt |-> "", args |-> <<>>]

\* The head of 'for lang in self._LANGS': fetch the file and split it in lines.
ParseOpen ==
    /\ pc = "parse_open"
    /\ lang_i <= Len(LANGS)
    /\ LET ls == DropLast(SplitLines(disk[SourcePath(LANGS[lang_i])]))
       IN  /\ lines' = ls
           /\ lineno' = 0
           /\ IF ls = <<>>
              THEN lang_i' = lang_i + 1 /\ pc' = "parse_open"
              ELSE lang_i' = lang_i /\ pc' = "parse_line"
    /\ phases' = LogPhase("parse")
    /\ UNCHANGED <<disk, upToDate, badges, row, key_order, strings, diagnostics,
                   check_i, entry_i, new_contents, original_contents, outcome,
                   table, rerun>>

\* One turn of the loop over the lines of a file.
ParseLine ==
    /\ pc = "parse_line"
    /\ lineno < Len(lines)
    /\ LET line == lines[lineno + 1]
           filename == SourcePath(LANGS[lang_i])
           decoded == Decode(line)
           got == TryRow(decoded)
           goOn ==
               /\ lineno' = lineno + 1
               /\ IF lineno + 1 = Len(lines)
                  THEN lang_i' = lang_i + 1 /\ pc' = "parse_open"
                  ELSE lang_i' = lang_i /\ pc' = "parse_line"
               /\ outcome' = outcome
       IN  IF decoded = DecodeError
           THEN \* line.decode raises; the handler reads 'row' as it was left
                /\ UNCHANGED <<row, key_order, strings>>
                /\ IF row = <<>>
                   THEN /\ pc' = "crashed"
                        /\ outcome' = Crash("UnboundLocalError")
                        /\ UNCHANGED <<lineno, lang_i, diagnostics>>
                   ELSE /\ diagnostics' = Append(diagnostics,
                               Diagnostic("'utf-8' codec can't decode byte", <<>>,
                                          filename, <<LineNumber(lineno)>>,
                                          <<Strip(row[1])>>))
                        /\ goOn
           ELSE /\ row' = <<decoded>>
                /\ IF got.creates /\ got.key \notin DOMAIN strings
                   THEN /\ key_order' = Append(key_order, got.key)
                        /\ strings' = DictSet(strings, got.key,
                               IF got.raised THEN EmptyDict
                               ELSE DictSet(EmptyDict, LANGS[lang_i], got.value))
                   ELSE /\ key_order' = key_order
                        /\ strings' =
                               IF got.raised THEN strings
                               ELSE [strings EXCEPT ![got.key] =
                                        DictSet(@, LANGS[lang_i], got.value)]
                /\ diagnostics' =
                       IF got.raised
                       THEN Append(diagnostics,
                               Diagnostic(got.fmt, got.args, filename,
                                          <<LineNumber(lineno)>>, <<Strip(decoded)>>))
                       ELSE diagnostics
                /\ goOn
    /\ UNCHANGED <<disk, upToDate, badges, lines, check_i, entry_i, new_contents,
                   original_contents, phases, table, rerun>>

\* After the loop over the languages: raise, or return the keys that are no
\* badge keys.
ParseReturn ==
    /\ pc = "parse_open"
    /\ lang_i > Len(LANGS)
    /\ IF ParserRaises(diagnostics)
       THEN /\ pc' = "raised"
            /\ outcome' = LinterException("Invalid i18n files", FALSE, diagnostics)
            /\ UNCHANGED <<key_order, strings>>
       ELSE /\ pc' = "badges"
            /\ outcome' = outcome
            /\ key_order' = SelectSeq(key_order, LAMBDA k : ~IsBadgeKey(k))
            /\ strings' = [k \in {x \in DOMAIN strings : ~IsBadgeKey(x)} |-> strings[k]]
    /\ UNCHANGED <<disk, upToDate, badges, lang_i, lines, lineno, row, diagnostics,
                   check_i, entry_i, new_contents, original_contents, phases,
                   table, rerun>>

(***************************************************************************)
(* _add_badges_entries and strings.update(...)                             *)
(***************************************************************************)

\* 'badge_%s_name' % alias, 'badge_%s_description' % alias
BadgeNameKey(alias) == Chars("badge_") \o alias \o Chars("_name")
BadgeDescriptionKey(alias) == Chars("badge_") \o alias \o Chars("_description")

\* The dict _add_badges_entries returns for the aliases it was listed and
\* their documents.
BadgeStrings(aliases, documents) ==
    [k \in {BadgeNameKey(a) : a \in Range(aliases)}
            \cup {BadgeDescriptionKey(a) : a \in Range(aliases)} |->
        LET a == CHOOSE a \in Range(aliases) :
                    k \in {BadgeNameKey(a), BadgeDescriptionKey(a)}
        IN  [l \in RequiredLanguages |->
                IF k = BadgeNameKey(a) THEN documents[a][l].name
                ELSE documents[a][l].description]]

\* The order in which _add_badges_entries inserts its keys.
BadgeKeyOrder(aliases) ==
    Flatten([i \in 1..Len(aliases) |->
        <<BadgeNameKey(aliases[i]), BadgeDescriptionKey(aliases[i])>>])

\* dict.update: a key that exists keeps its place and takes the new value.
DictUpdate(d, other) ==
    [k \in DOMAIN d \cup DOMAIN other |-> IF k \in DOMAIN other THEN other[k] ELSE d[k]]

\* A localizations.json with a name and a description for each given language.
BadgeDocument(languages) ==
    [l \in languages |->
        [name |-> Chars("le ") \o Chars(l),
         description |-> Chars("the \"") \o Chars(l) \o Chars("\"")]]

\* frontend/badges before run_all has read it.
NotListed == [listed |-> FALSE, documents |-> EmptyDict]

\* frontend/badges: empty; one badge; one badge whose English name holds a line
\* break; one badge whose document lacks 'pt'.
BadgePool ==
    {EmptyDict,
     Chars("x") :> BadgeDocument(RequiredLanguages),
     Chars("x") :> [BadgeDocument(RequiredLanguages) EXCEPT
                        !["en"].name = <<"a", "\n", "b">>],
     Chars("x") :> BadgeDocument({"en", "es"})}

\* run_all line 229.  The directory and its documents are inputs, read here for
\* the first time and the same from then on.  contents[lang] raises KeyError
\* for a document that lacks a language, and the exception leaves run_all.
AddBadgesEntries ==
    /\ pc = "badges"
    /\ phases' = LogPhase("merge")
    /\ \E documents \in (IF badges.listed THEN {badges.documents} ELSE BadgePool) :
        /\ badges' = [listed |-> TRUE, documents |-> documents]
        /\ \E aliases \in Orderings(DOMAIN documents) :
              IF \E a \in DOMAIN documents :
                    ~(RequiredLanguages \subseteq DOMAIN documents[a])
              THEN /\ pc' = "crashed"
                   /\ outcome' = Crash("KeyError")
                   /\ UNCHANGED <<key_order, strings>>
              ELSE /\ pc' = "check"
                   /\ outcome' = outcome
                   /\ strings' = DictUpdate(strings, BadgeStrings(aliases, documents))
                   /\ key_order' =
                          key_order \o SelectSeq(BadgeKeyOrder(aliases),
                                                 LAMBDA k : k \notin DOMAIN strings)
    /\ diagnostics' = <<>>
    /\ check_i' = 1
    /\ UNCHANGED <<disk, upToDate, lang_i, lines, lineno, row, entry_i,
                   new_contents, original_contents, table, rerun>>

(***************************************************************************)
(* _check_missing_entries                                                  *)
(***************************************************************************)

\* MissingLanguages with a language left out of the difference.
MissingLanguagesButPt(values, languages) == (languages \ {"pt"}) \ DOMAIN values

\* languages.difference(list(values.keys()))
MissingLanguages(values, languages) == languages \ DOMAIN values

\* MissingDiagnostics that stops after the first missing language.
MissingDiagnosticsFirstOnly(key, order) ==
    <<Diagnostic("Missing entry: %r", <<key>>, SourcePath(order[1]), <<>>, <<>>)>>

\* The diagnostics of one key, for the order in which the set was iterated.
MissingDiagnostics(key, order) ==
    [i \in 1..Len(order) |->
        Diagnostic("Missing entry: %r", <<key>>, SourcePath(order[i]), <<>>, <<>>)]

\* PseudoValue reading another language than 'en'.
PseudoValueFromEs(key, values) ==
    IF key = Chars("locale") THEN Chars("pseudo") ELSE Pseudoloc(values["es"])

\* What the check stores as values['pseudo'].
PseudoValue(key, values) ==
    IF key = Chars("locale") THEN Chars("pseudo") ELSE Pseudoloc(values["en"])

\* CheckerRaises for a check that goes on whatever it collected.
CheckerRaisesNever(diags) == FALSE

\* The 'if diagnostics:' of the check.
CheckerRaises(diags) == diags # <<>>

\* One turn of 'for key, values in strings.items()'.
CheckKey ==
    /\ pc = "check"
    /\ check_i <= Len(key_order)
    /\ LET key == key_order[check_i]
           values == strings[key]
           missing == MissingLanguages(values, RequiredLanguages)
       IN  IF missing # {}
           THEN /\ \E order \in Orderings(missing) :
                      diagnostics' = diagnostics \o MissingDiagnostics(key, order)
                /\ strings' = strings
           ELSE /\ strings' = [strings EXCEPT
                                  ![key] = DictSet(values, "pseudo", PseudoValue(key, values))]
                /\ diagnostics' = diagnostics
    /\ check_i' = check_i + 1
    /\ phases' = LogPhase("check")
    /\ UNCHANGED <<disk, upToDate, badges, pc, lang_i, lines, lineno, row, key_order,
                   entry_i, new_contents, original_contents, outcome, table, rerun>>

\* After the loop: raise, or return to run_all.
CheckReturn ==
    /\ pc = "check"
    /\ check_i > Len(key_order)
    /\ IF CheckerRaises(diagnostics)
       THEN /\ pc' = "raised"
            /\ outcome' = LinterException("There are missing items in some files",
                                          TRUE, diagnostics)
       ELSE /\ pc' = "generate"
            /\ outcome' = outcome
    /\ phases' = LogPhase("check")
    /\ entry_i' = 1
    /\ new_contents' = EmptyDict
    /\ original_contents' = EmptyDict
    /\ UNCHANGED <<disk, upToDate, badges, lang_i, lines, lineno, row, key_order,
                   strings, diagnostics, check_i, table, rerun>>

(***************************************************************************)
(* _generate_new_contents and _generate_content_entry                      *)
(***************************************************************************)

\* ContentDiffers for a comparison that records every artifact.
ContentDiffersAlways(original_content, new_content) == TRUE

\* original_content.decode('utf-8') != new_content
ContentDiffers(original_content, new_content) == Decode(original_content) # new_content

\* Bytes that are no rendering of any table.
Stale == Encode(Chars("#"))

\* The generated artifacts on disk: all current; none current; two stale; one
\* that is no UTF-8.
GeneratedDisks ==
    {[current |-> GeneratedPaths, other |-> Stale],
     [current |-> {}, other |-> Stale],
     [current |-> GeneratedPaths \ {TypescriptPath("en"), SourcePath("pseudo")},
      other |-> Stale],
     [current |-> GeneratedPaths \ {JsonPath("es")}, other |-> <<255>>]}

\* contents_callback(path) for an artifact whose rendering is new_content, on
\* a disk where the artifacts in 'current' hold the bytes of their rendering.
Fetch(files, current, path, new_content) ==
    IF path \in current THEN Encode(new_content) ELSE files[path]

\* The generated artifacts g as files.
Artifacts(g) == [p \in GeneratedPaths |-> IF p \in g.current THEN <<>> ELSE g.other]

\* One call of _generate_content_entry: render, fetch, compare, record.  The
\* generated artifacts are inputs, read here for the first time and the same
\* from then on.  A file that is no UTF-8 makes decode raise, and the exception
\* leaves run_all.
GenerateContentEntry ==
    /\ pc = "generate"
    /\ entry_i <= Len(EntryPaths)
    /\ \E g \in (IF GeneratedPaths \subseteq DOMAIN disk
                 THEN {[current |-> upToDate, other |-> <<>>]}
                 ELSE GeneratedDisks) :
        LET files == IF GeneratedPaths \subseteq DOMAIN disk THEN disk
                     ELSE Artifacts(g) @@ disk
            path == EntryPaths[entry_i]
            new_content == Rendering(entry_i, strings)
            original_content == Fetch(files, g.current, path, new_content)
        IN  /\ disk' = [files EXCEPT ![path] = original_content]
            /\ upToDate' = g.current \ {path}
            /\ IF Decode(original_content) = DecodeError
               THEN /\ pc' = "crashed"
                    /\ outcome' = Crash("UnicodeDecodeError")
                    /\ UNCHANGED <<entry_i, new_contents, original_contents>>
               ELSE /\ pc' = pc
                    /\ outcome' = outcome
                    /\ entry_i' = entry_i + 1
                    /\ IF ContentDiffers(original_content, new_content)
                       THEN /\ new_contents' =
                                   DictSet(new_contents, path, Encode(new_content))
                            /\ original_contents' =
                                   DictSet(original_contents, path, original_content)
                       ELSE UNCHANGED <<new_contents, original_contents>>
    /\ phases' = LET seen == LogPhase("emit")
                 IN  IF "drift" \in Range(seen) THEN seen ELSE Append(seen, "drift")
    /\ UNCHANGED <<badges, lang_i, lines, lineno, row, key_order, strings,
                   diagnostics, check_i, table, rerun>>

\* run_all lines 235-236
Return ==
    /\ pc = "generate"
    /\ entry_i > Len(EntryPaths)
    /\ pc' = "returned"
    /\ outcome' = MultipleResults
    /\ UNCHANGED <<disk, upToDate, badges, lang_i, lines, lineno, row, key_order,
                   strings, diagnostics, check_i, entry_i, new_contents,
                   original_contents, phases, table, rerun>>

(***************************************************************************)
(* The callers                                                             *)
(***************************************************************************)

\* The caller of run_all applies the fix: it writes every entry of the new
\* contents to its path, leaves the badge documents alone, and runs again.
WriteBack ==
    /\ pc = "returned"
    /\ ~rerun
    /\ rerun' = TRUE
    /\ disk' = [p \in DOMAIN disk |->
                   IF p \in DOMAIN new_contents THEN new_contents[p] ELSE disk[p]]
    /\ pc' = "parse_open"
    /\ lang_i' = 1
    /\ lines' = <<>>
    /\ lineno' = 0
    /\ row' = <<>>
    /\ key_order' = <<>>
    /\ strings' = EmptyDict
    /\ diagnostics' = <<>>
    /\ check_i' = 1
    /\ entry_i' = 1
    /\ new_contents' = EmptyDict
    /\ original_contents' = EmptyDict
    /\ outcome' = NoOutcome
    /\ phases' = <<>>
    /\ UNCHANGED <<upToDate, badges, table>>

\* The value of 'table' when _generate_sorted is not called on its own.
NoTable == [lang |-> "", strings |-> EmptyDict]

\* _generate_sorted(lang, strings) for one language of a table, its text stored
\* as that language's source file beside two empty ones, for the parser to read.
RenderSource ==
    /\ pc = "render"
    /\ disk' = [p \in DOMAIN disk |->
                   IF p = SourcePath(table.lang)
                   THEN Encode(GenerateSorted(table.lang, table.strings))
                   ELSE IF p \in SourcePaths THEN <<>> ELSE disk[p]]
    /\ pc' = "parse_open"
    /\ UNCHANGED <<upToDate, badges, lang_i, lines, lineno, row, key_order, strings,
                   diagnostics, check_i, entry_i, new_contents, original_contents,
                   outcome, phases, table, rerun>>

(***************************************************************************)
(* Inputs                                                                  *)
(***************************************************************************)

\* The most lines of en.lang.
MaxLines == 2

\* The longest string given to _pseudoloc on its own.
MaxOriginal == 5

\* The longest value of a table given to _generate_sorted on its own.
MaxValue == 3

\* One line of a source file, with its terminator.
Line(text) == Encode(Chars(text) \o <<"\n">>)

\* Every file of at most n of the given chunks.
Files(chunks, n) == {Flatten(f) : f \in UNION {[1..k -> chunks] : k \in 0..n}}

\* Lines of en.lang: two entries, a line without '=', a value without quotes, a
\* stale badge entry, and a line that is no UTF-8.
EnChunks ==
    {Line("x = \"e \\\"%(n)\\\"\""), Line("locale = \"en\""), Line("bad"),
     Line("y = e"), Line("badge_z_name = \"o\""), <<255, 10>>}

EnFiles == Files(EnChunks, MaxLines)

\* es.lang: complete; with a malformed badge line between two entries; without
\* 'locale' and with a stale entry of the badge x.
EsFiles ==
    {Encode(Chars("x = \"s") \o <<EAcute>> \o Chars("\"\nlocale = \"es\"\n")),
     Line("locale = \"es\"") \o Line("  badge_y = e  ") \o Line("x = \"s\""),
     Line("badge_x_name = \"o\"") \o Line("x = \"s\"")}

\* pt.lang: complete; without 'locale' and with tabs and a carriage return;
\* with a last line that has no terminator.
PtFiles ==
    {Line("x   =   \"t\"") \o Line("locale = \"pt\""),
     Line("x\t=\t\"t\"\r"),
     Line("locale = \"pt\"") \o Line("x = \"t\"") \o Encode(Chars("w = \"u\""))}

\* A disk of which the three source files are known.
Disk(en, es, pt) ==
    [p \in SourcePaths |->
        CASE p = SourcePath("en") -> en
          [] p = SourcePath("es") -> es
          [] OTHER -> pt]

(***************************************************************************)
(* run_all                                                                 *)
(***************************************************************************)

Init ==
    /\ \E en \in EnFiles, es \in EsFiles, pt \in PtFiles : disk = Disk(en, es, pt)
    /\ upToDate = {}
    /\ badges = NotListed
    /\ pc = "parse_open"
    /\ Locals
    /\ table = NoTable
    /\ rerun = FALSE

Next ==
    \/ ParseOpen
    \/ ParseLine
    \/ ParseReturn
    \/ AddBadgesEntries
    \/ CheckKey
    \/ CheckReturn
    \/ GenerateContentEntry
    \/ Return

Spec == Init /\ [][Next]_vars

(***************************************************************************)
(* run_all, the fix applied, and run_all again                             *)
(***************************************************************************)

NextWriteBack ==
    \/ Next
    \/ WriteBack

SpecWriteBack == Init /\ [][NextWriteBack]_vars

(***************************************************************************)
(* _check_missing_entries on its own                                       *)
(***************************************************************************)

\* Characters for _pseudoloc: the parts of a placeholder, a letter that is
\* both translated and an identifier character, and a space.
OriginalAlphabet == {"%", "(", ")", "e", " "}

\* The strings over an alphabet of at most n characters.
StringsUpTo(alphabet, n) == UNION {[1..k -> alphabet] : k \in 0..n}

Originals ==
    StringsUpTo(OriginalAlphabet, MaxOriginal)
        \cup {Chars("Hello %(name)"), Chars("%(see list)")}

\* The tables given to the check: a key (or the key 'locale') with the same
\* value in the three languages, or with 'pt' missing.
CheckerTables ==
    {k :> [l \in ls |-> v] :
        k \in {Chars("k"), Chars("locale")},
        ls \in {RequiredLanguages, {"en", "es"}},
        v \in Originals}

InitChecker ==
    /\ \E t \in CheckerTables :
          /\ strings = t
          /\ key_order = Sorted(DOMAIN t)
    /\ pc = "check"
    /\ disk = [p \in Range(EntryPaths) |-> <<>>]
    /\ upToDate = {}
    /\ badges = NotListed
    /\ lang_i = 1
    /\ lines = <<>>
    /\ lineno = 0
    /\ row = <<>>
    /\ diagnostics = <<>>
    /\ check_i = 1
    /\ entry_i = 1
    /\ new_contents = EmptyDict
    /\ original_contents = EmptyDict
    /\ outcome = NoOutcome
    /\ phases = <<>>
    /\ table = NoTable
    /\ rerun = FALSE

NextChecker ==
    \/ CheckKey
    \/ CheckReturn

SpecChecker == InitChecker /\ [][NextChecker]_vars

(***************************************************************************)
(* _generate_sorted on its own, and the parser on its text                 *)
(***************************************************************************)

\* Characters for the values of a table: a letter, the quote, the backslash,
\* the line break, a space and '='.
ValueAlphabet == {"a", "\"", "\\", "\n", " ", "="}

\* The tables given to _generate_sorted, with values for one language: a key
\* with any value; that key beside a badge key; that key beside a key with an
\* '=' in it that sorts before it.
RoundTripStrings(l, v) ==
    {Chars("x") :> (l :> v),
     (Chars("x") :> (l :> v)) @@ (Chars("badge_x_name") :> (l :> Chars("n"))),
     (Chars("x") :> (l :> v)) @@ (Chars("k =v") :> (l :> Chars("b")))}

RoundTripTables ==
    UNION {{[lang |-> l, strings |-> t] : t \in RoundTripStrings(l, v)} :
            l \in RequiredLanguages, v \in StringsUpTo(ValueAlphabet, MaxValue)}

InitRoundTrip ==
    /\ table \in RoundTripTables
    /\ pc = "render"
    /\ disk = [p \in Range(EntryPaths) |-> <<>>]
    /\ upToDate = {}
    /\ badges = NotListed
    /\ Locals
    /\ rerun = FALSE

NextRoundTrip ==
    \/ RenderSource
    \/ ParseOpen
    \/ ParseLine
    \/ ParseReturn

SpecRoundTrip == InitRoundTrip /\ [][NextRoundTrip]_vars

(***************************************************************************)
(* Properties of the consistency check                                     *)
(***************************************************************************)

\* _check_missing_entries has returned to run_all without raising.
CheckPassed ==
    \/ pc \in {"generate", "returned"}
    \/ pc = "crashed" /\ outcome.kind = "UnicodeDecodeError"

\* _check_missing_entries has raised.
CheckRaised ==
    pc = "raised" /\ outcome.message = "There are missing items in some files"

\* C1: whenever _check_missing_entries returns without raising, every key of
\* the table has an entry for each of en, es and pt and an entry for 'pseudo'.
CheckedTableIsComplete ==
    CheckPassed =>
        \A k \in DOMAIN strings : {"en", "es", "pt", "pseudo"} \subseteq DOMAIN strings[k]

\* The check has passed a table of parsed keys and badge keys.
CheckedTableIsCompleteWitness ==
    /\ pc = "generate"
    /\ Chars("x") \in DOMAIN strings
    /\ Chars("locale") \in DOMAIN strings
    /\ Chars("badge_x_name") \in DOMAIN strings

\* The (key, required language) pairs for which the table has no value.
MissingPairs ==
    {kl \in (DOMAIN strings) \X {"en", "es", "pt"} : kl[2] \notin DOMAIN strings[kl[1]]}

\* The diagnostics of the check that name key k and the source file of
\* language l.
DiagnosticsFor(k, l) ==
    {i \in 1..Len(diagnostics) :
        /\ diagnostics[i].message = [fmt |-> "Missing entry: %r", args |-> <<k>>]
        /\ diagnostics[i].filename = "frontend/templates/" \o l \o ".lang"}

\* C2: the check collects exactly one diagnostic for each (key, missing
\* required language) pair, naming the key and the language's source file;
\* a key with a missing language gains no 'pseudo' entry; and the check raises
\* the missing-entries error, with all those diagnostics, exactly when there
\* is such a pair, and only after the last key.
OneDiagnosticPerMissingPair ==
    (CheckPassed \/ CheckRaised) =>
        /\ Len(diagnostics) = Cardinality(MissingPairs)
        /\ \A kl \in MissingPairs :
              /\ Cardinality(DiagnosticsFor(kl[1], kl[2])) = 1
              /\ "pseudo" \notin DOMAIN strings[kl[1]]
        /\ CheckRaised <=> MissingPairs # {}
        /\ CheckRaised =>
              /\ outcome.kind = "LinterException"
              /\ outcome.diagnostics = diagnostics
              /\ check_i = Len(key_order) + 1

\* The check has raised for a table in which one key lacks two languages and
\* another key lacks none.
OneDiagnosticPerMissingPairWitness ==
    /\ CheckRaised
    /\ \E k \in DOMAIN strings : Cardinality({kl \in MissingPairs : kl[1] = k}) = 2
    /\ \E k \in DOMAIN strings : "pseudo" \in DOMAIN strings[k]

\* The keys the loop of the check has dealt with.
KeysChecked ==
    IF pc = "check" THEN {key_order[i] : i \in 1..(check_i - 1)}
    ELSE IF CheckPassed \/ CheckRaised THEN DOMAIN strings
    ELSE {}

\* C6: for every key that has all required languages when the check deals
\* with it, the 'pseudo' value is the string 'pseudo' for the key 'locale',
\* whatever its 'en' value, and otherwise _pseudoloc of the key's 'en' value,
\* whatever its other values, the other keys and the order of the keys.
PseudoValueFromEnAlone ==
    \A k \in KeysChecked :
        {"en", "es", "pt"} \subseteq DOMAIN strings[k] =>
            /\ "pseudo" \in DOMAIN strings[k]
            /\ strings[k]["pseudo"] =
                  IF k = Chars("locale") THEN Chars("pseudo")
                  ELSE Pseudoloc(strings[k]["en"])

\* The check has dealt with 'locale' and with a key whose 'en' value holds
\* translated letters, quotes and a placeholder.
PseudoValueFromEnAloneWitness ==
    /\ pc = "generate"
    /\ Chars("locale") \in DOMAIN strings
    /\ strings[Chars("locale")]["en"] = Chars("en")
    /\ strings[Chars("locale")]["pseudo"] = Chars("pseudo")
    /\ Chars("x") \in DOMAIN strings
    /\ strings[Chars("x")]["en"] = Chars("e \"%(n)\"")
    /\ strings[Chars("x")]["pseudo"] = Chars("(3 \"%(n)\")")

(***************************************************************************)
(* Properties of the parser                                                *)
(***************************************************************************)

\* The lines the parser reads from the source file of LANGS[j].
FileLines(j) == DropLast(SplitLines(disk["frontend/templates/" \o LANGS[j] \o ".lang"]))

\* The positions <<j, n>> of line n, counted from 1, in the file of LANGS[j].
LinePositions == UNION {{<<j, n>> : n \in 1..Len(FileLines(j))} : j \in 1..Len(LANGS)}

Decodes(jn) == Decode(FileLines(jn[1])[jn[2]]) # DecodeError

\* The line at a position, decoded and trimmed.
Trimmed(jn) == Strip(Decode(FileLines(jn[1])[jn[2]]))

FailsSplit(jn) == Decodes(jn) /\ Len(KeyValueSplit(Trimmed(jn))) = 1

FailsPattern(jn) ==
    /\ Decodes(jn)
    /\ Len(KeyValueSplit(Trimmed(jn))) = 2
    /\ QuotedValueMatch(KeyValueSplit(Trimmed(jn))[2]) = NoMatch

\* The line is an entry key = "value".
WellFormed(jn) == Decodes(jn) /\ ~FailsSplit(jn) /\ ~FailsPattern(jn)

\* The parser is running, or is the last function that ran.
InParser ==
    \/ pc \in {"parse_open", "parse_line", "badges"}
    \/ pc = "raised" /\ outcome.message = "Invalid i18n files"
    \/ pc = "crashed" /\ outcome.kind = "UnboundLocalError"

ParserRaised == pc = "raised" /\ outcome.message = "Invalid i18n files"

ParserCrashed == pc = "crashed" /\ outcome.kind = "UnboundLocalError"

\* The loop of the parser has dealt with the line at the position.
Read(jn) ==
    \/ jn[1] < lang_i
    \/ pc \in {"parse_line", "crashed"} /\ jn[1] = lang_i /\ jn[2] <= lineno

\* The diagnostics of the parser that carry the file and the number of a line.
DiagnosticsAt(jn) ==
    {i \in 1..Len(diagnostics) :
        /\ diagnostics[i].filename = "frontend/templates/" \o LANGS[jn[1]] \o ".lang"
        /\ diagnostics[i].lineno = <<jn[2]>>}

\* C3: every line that fails the key/value split or the quoted-value pattern
\* yields exactly one diagnostic, whose message embeds the trimmed line and
\* whose line number is the 1-based position of the line; the parser raises
\* once, after the last language, a non-fixable error with every diagnostic
\* collected; and it raises nothing when no line failed.
EveryFailingLineReported ==
    InParser =>
        /\ \A jn \in LinePositions :
              Read(jn) /\ (FailsSplit(jn) \/ FailsPattern(jn)) =>
                  /\ Cardinality(DiagnosticsAt(jn)) = 1
                  /\ \A i \in DiagnosticsAt(jn) :
                        Trimmed(jn) \in Range(diagnostics[i].message.args)
        /\ ParserRaised =>
              /\ lang_i = Len(LANGS) + 1
              /\ outcome.fixable = FALSE
              /\ outcome.diagnostics = diagnostics
        /\ (\A jn \in LinePositions : ~(FailsSplit(jn) \/ FailsPattern(jn))) =>
              /\ diagnostics = <<>>
              /\ ~ParserRaised
              /\ ~ParserCrashed

HasBadgePrefix(k) == Len(k) >= 6 /\ SubSeq(k, 1, 6) = Chars("badge_")

\* The line is an entry whose key begins with 'badge_'.
StaleBadgeEntry(jn) == WellFormed(jn) /\ HasBadgePrefix(KeyValueSplit(Trimmed(jn))[1])

\* strings.update(...) of run_all has happened.
Merged ==
    \/ pc \in {"check", "generate", "returned"}
    \/ CheckRaised
    \/ pc = "crashed" /\ outcome.kind = "UnicodeDecodeError"

\* The key k and its values are those of the document of the badge a.
FromMerger(k, a) ==
    \/ /\ k = Chars("badge_") \o a \o Chars("_name")
       /\ \A l \in {"en", "es", "pt"} : strings[k][l] = badges.documents[a][l].name
    \/ /\ k = Chars("badge_") \o a \o Chars("_description")
       /\ \A l \in {"en", "es", "pt"} : strings[k][l] = badges.documents[a][l].description

\* C9: an entry of a source file whose key begins with 'badge_' yields no
\* diagnostic of the parser and is not in the table the parser returns; after
\* the merge every key that begins with 'badge_' and its values for en, es and
\* pt are those of a badge document, and no diagnostic of the check names a
\* key that begins with 'badge_'.
StaleBadgeEntriesDiscarded ==
    /\ pc = "badges" \/ ParserRaised \/ ParserCrashed =>
          \A jn \in LinePositions : Read(jn) /\ StaleBadgeEntry(jn) => DiagnosticsAt(jn) = {}
    /\ pc = "badges" => \A k \in DOMAIN strings : ~HasBadgePrefix(k)
    /\ Merged =>
          /\ \A k \in DOMAIN strings :
                HasBadgePrefix(k) => \E a \in DOMAIN badges.documents : FromMerger(k, a)
          /\ \A i \in 1..Len(diagnostics) :
                ~HasBadgePrefix(diagnostics[i].message.args[1])

\* es.lang holds a stale value "o" for the name of badge x and no other file
\* holds the key; the table that passed the check has the values of the badge
\* document.
StaleBadgeEntriesDiscardedWitness ==
    /\ pc = "generate"
    /\ \E n \in 1..Len(FileLines(2)) :
          /\ StaleBadgeEntry(<<2, n>>)
          /\ Trimmed(<<2, n>>) = Chars("badge_x_name = \"o\"")
    /\ Chars("badge_x_name") \in DOMAIN strings
    /\ strings[Chars("badge_x_name")]["es"] = Chars("le es")

(***************************************************************************)
(* Properties of run_all                                                   *)
(***************************************************************************)

PhaseOrder == <<"parse", "merge", "check", "emit", "drift">>

DriftMapsExact ==
    pc \in {"generate", "returned"} =>
        /\ DOMAIN new_contents = DOMAIN original_contents
        /\ DOMAIN new_contents \subseteq {EntryPaths[i] : i \in 1..(entry_i - 1)}
        /\ pc = "returned" => entry_i = Len(EntryPaths) + 1
        /\ \A i \in 1..(entry_i - 1) :
              LET path == EntryPaths[i]
                  rendered == Encode(Rendering(i, strings))
              IN  /\ path \in DOMAIN new_contents <=> disk[path] # rendered
                  /\ path \in DOMAIN new_contents =>
                        /\ new_contents[path] = rendered
                        /\ original_contents[path] = disk[path]

\* run_all has returned with some artifacts recorded and others not.
DriftMapsExactWitness ==
    /\ pc = "returned"
    /\ "frontend/www/js/omegaup/lang.en.ts" \in DOMAIN new_contents
    /\ original_contents["frontend/www/js/omegaup/lang.en.ts"] = Stale
    /\ "frontend/www/js/omegaup/lang.es.json" \notin DOMAIN new_contents
    /\ "frontend/templates/en.lang" \in DOMAIN new_contents

\* C10: when the caller has written new_contents back and run_all has run
\* again, the second run returns, and returns two empty maps.
WriteBackIsFixpoint ==
    rerun /\ pc \in {"returned", "raised", "crashed"} =>
        /\ pc = "returned"
        /\ new_contents = EmptyDict
        /\ original_contents = EmptyDict

(***************************************************************************)
(* Properties of _pseudoloc                                                *)
(***************************************************************************)

\* The placeholder token of the specification: '%(', one or more letters,
\* digits, '_' or '-', and ')'.
IsPlaceholderToken(token) ==
    /\ Len(token) >= 4
    /\ token[1] = "%"
    /\ token[2] = "("
    /\ token[Len(token)] = ")"
    /\ \A i \in 3..(Len(token) - 1) : IsIdChar(token[i])

\* The transform of the specification: a segment is kept exactly when it is a
\* placeholder token.
ReferenceTransform(original) ==
    LET tokens == SplitPlaceholders(original)
    IN  <<"(">>
            \o Flatten([i \in 1..Len(tokens) |->
                   IF IsPlaceholderToken(tokens[i]) THEN tokens[i]
                   ELSE Translate(tokens[i])])
            \o <<")">>

\* C5: the 'pseudo' value the check stores for a key other than 'locale' is
\* the reference transform of the key's 'en' value.
PseudolocIsReference ==
    \A k \in KeysChecked :
        "pseudo" \in DOMAIN strings[k] /\ k # Chars("locale") =>
            strings[k]["pseudo"] = ReferenceTransform(strings[k]["en"])

(***************************************************************************)
(* Properties of _generate_sorted and the parser                           *)
(***************************************************************************)

\* C7: the parser, given the text of _generate_sorted for a table and a
\* language, collects no diagnostic and returns the keys of the table, each
\* with the value the table has for the language.
RoundTripReproducesTable ==
    table # NoTable /\ pc \in {"badges", "raised", "crashed"} =>
        /\ pc = "badges"
        /\ diagnostics = <<>>
        /\ DOMAIN strings = DOMAIN table.strings
        /\ \A k \in DOMAIN strings :
              /\ DOMAIN strings[k] = {table.lang}
              /\ strings[k][table.lang] = table.strings[k][table.lang]

====
